---- MODULE Spec2Model ----
(***************************************************************************)
(* A model of slpr.py, the Sourcelyzer plugin repository tool:             *)
(*   - SemVer parsing and comparison (parse_version, compare_versions,     *)
(*     _nat_cmp, SemverKeySort and the sort refresh_repository runs),      *)
(*   - file digests (file_hash, file_sums),                                *)
(*   - install_plugin, refresh_repository and the install / refresh        *)
(*     commands over a repository directory tree.                          *)
(*                                                                         *)
(* Strings are TLA+ strings; where the code takes a string apart (a        *)
(* version string) the model works on its sequence of characters.          *)
(***************************************************************************)
EXTENDS Integers, Sequences, FiniteSets, TLC

(***************************************************************************)
(* Characters.  Alphabet lists the characters the model uses in ASCII      *)
(* order, so that Ord preserves the code-point order Python compares       *)
(* strings by.                                                             *)
(***************************************************************************)
Alphabet ==
    << "\n", "+", "-", ".",
       "0", "1", "2", "3", "4", "5", "6", "7", "8", "9",
       "A", "Z",
       "a", "b", "c", "e", "h", "l", "p", "r", "t", "v" >>

Ord(c) == CHOOSE i \in 1..Len(Alphabet) : Alphabet[i] = c

Digits == {"0", "1", "2", "3", "4", "5", "6", "7", "8", "9"}

Letters == {"A", "Z", "a", "b", "c", "e", "h", "l", "p", "r", "t", "v"}

\* [0-9A-Za-z-]
IdChars == Digits \cup Letters \cup {"-"}

DigitVal(c) == Ord(c) - Ord("0")

Min(a, b) == IF a < b THEN a ELSE b

\* python2.7 cmp() on integers
cmp(a, b) == IF a < b THEN -1 ELSE IF a > b THEN 1 ELSE 0

\* cmp() on two str values: lexicographic by code point, a proper prefix is lower
RECURSIVE StrCmp(_, _)
StrCmp(a, b) ==
    IF a = <<>> /\ b = <<>> THEN 0
    ELSE IF a = <<>> THEN -1
    ELSE IF b = <<>> THEN 1
    ELSE IF Head(a) # Head(b) THEN cmp(Ord(Head(a)), Ord(Head(b)))
    ELSE StrCmp(Tail(a), Tail(b))

\* index of the first occurrence of character c in s, 0 when there is none
IndexOf(s, c) ==
    IF \E i \in 1..Len(s) : s[i] = c
    THEN CHOOSE i \in 1..Len(s) : s[i] = c /\ \A j \in 1..(i - 1) : s[j] # c
    ELSE 0

\* str.split(sep): "a..b" gives ["a", "", "b"], "" gives [""]
RECURSIVE Split(_, _)
Split(s, sep) ==
    LET i == IndexOf(s, sep)
    IN  IF i = 0 THEN << s >>
        ELSE << SubSeq(s, 1, i - 1) >> \o Split(SubSeq(s, i + 1, Len(s)), sep)

\* int(text) for a text of decimal digits
RECURSIVE IntVal(_)
IntVal(text) ==
    IF text = <<>> THEN 0
    ELSE 10 * IntVal(SubSeq(text, 1, Len(text) - 1)) + DigitVal(text[Len(text)])

(***************************************************************************)
(* Version strings.  Chars gives the characters of each version string the *)
(* model uses; the code's regular expression and split() work on them.     *)
(***************************************************************************)
Chars ==
       ("0.0.1" :> << "0", ".", "0", ".", "1" >>)
    @@ ("0.1.0" :> << "0", ".", "1", ".", "0" >>)
    @@ ("1.0.0" :> << "1", ".", "0", ".", "0" >>)
    @@ ("2.0.0" :> << "2", ".", "0", ".", "0" >>)
    @@ ("10.0.0" :> << "1", "0", ".", "0", ".", "0" >>)
    @@ ("1.0" :> << "1", ".", "0" >>)
    @@ ("v1.0.0" :> << "v", "1", ".", "0", ".", "0" >>)
    @@ ("01.0.0" :> << "0", "1", ".", "0", ".", "0" >>)
    @@ ("1.0.0\n" :> << "1", ".", "0", ".", "0", "\n" >>)
    @@ ("1.0.0-alpha" :> << "1", ".", "0", ".", "0", "-", "a", "l", "p", "h", "a" >>)
    @@ ("1.0.0-alpha.1" :> << "1", ".", "0", ".", "0", "-", "a", "l", "p", "h", "a", ".", "1" >>)
    @@ ("1.0.0-alpha.beta" :> << "1", ".", "0", ".", "0", "-", "a", "l", "p", "h", "a", ".", "b", "e", "t", "a" >>)
    @@ ("1.0.0-2" :> << "1", ".", "0", ".", "0", "-", "2" >>)
    @@ ("1.0.0-10" :> << "1", ".", "0", ".", "0", "-", "1", "0" >>)
    @@ ("1.0.0-1a" :> << "1", ".", "0", ".", "0", "-", "1", "a" >>)
    @@ ("1.0.0-1-2" :> << "1", ".", "0", ".", "0", "-", "1", "-", "2" >>)
    @@ ("1.0.0+a" :> << "1", ".", "0", ".", "0", "+", "a" >>)
    @@ ("1.0.0+b" :> << "1", ".", "0", ".", "0", "+", "b" >>)
    @@ ("1.0.0-rc.1+b" :> << "1", ".", "0", ".", "0", "-", "r", "c", ".", "1", "+", "b" >>)

\* the version strings the model draws from
VersionStrings == DOMAIN Chars

(***************************************************************************)
(* SEMVER_REGEX and parse_version.                                         *)
(***************************************************************************)
\* (?:0|[1-9][0-9]*)
IsNumericId(p) ==
    \/ p = << "0" >>
    \/ /\ Len(p) >= 1
       /\ p[1] \in Digits \ {"0"}
       /\ \A i \in 2..Len(p) : p[i] \in Digits

\* (?:0|[1-9A-Za-z-][0-9A-Za-z-]*)
IsPrereleaseId(p) ==
    \/ p = << "0" >>
    \/ /\ Len(p) >= 1
       /\ p[1] \in IdChars \ {"0"}
       /\ \A i \in 2..Len(p) : p[i] \in IdChars

\* [0-9A-Za-z-]+
IsBuildId(p) == Len(p) >= 1 /\ \A i \in 1..Len(p) : p[i] \in IdChars

None == << "None" >>

\* the part of s before the first c, all of s when it holds no c
BeforeFirst(s, c) == IF IndexOf(s, c) = 0 THEN s ELSE SubSeq(s, 1, IndexOf(s, c) - 1)

\* the part of s after the first c, None when it holds no c: an optional
\* group that did not take part in the match
AfterFirst(s, c) == IF IndexOf(s, c) = 0 THEN None ELSE SubSeq(s, IndexOf(s, c) + 1, Len(s))

\* (?:\.(?:0|[1-9A-Za-z-][0-9A-Za-z-]*))* : every dot-separated identifier
\* of the optional prerelease group
AllPrereleaseIds(pre) ==
    pre # None => \A i \in 1..Len(Split(pre, ".")) : IsPrereleaseId(Split(pre, ".")[i])

\* (?:\.[0-9A-Za-z-]+)* : every dot-separated identifier of the optional
\* build group
AllBuildIds(build) ==
    build # None => \A i \in 1..Len(Split(build, ".")) : IsBuildId(Split(build, ".")[i])

\* the groups of a match whose core splits into nums
SemverGroups(nums, pre, build) ==
    IF /\ Len(nums) = 3
       /\ \A i \in 1..3 : IsNumericId(nums[i])
       /\ AllPrereleaseIds(pre)
       /\ AllBuildIds(build)
    THEN [matched |-> TRUE, major |-> nums[1], minor |-> nums[2], patch |-> nums[3],
          prerelease |-> pre, build |-> build]
    ELSE [matched |-> FALSE, major |-> <<>>, minor |-> <<>>, patch |-> <<>>,
          prerelease |-> None, build |-> None]

\* The core holds neither "-" nor "+" and the prerelease no "+", so the first
\* "+" starts the build and the first "-" before it starts the prerelease.
SemverBody(body) ==
    SemverGroups(Split(BeforeFirst(BeforeFirst(body, "+"), "-"), "."),
                 AfterFirst(BeforeFirst(body, "+"), "-"),
                 AfterFirst(body, "+"))

\* SEMVER_REGEX.match(s): whether s matches and the groups it captures.
\* `$' also matches just before one trailing newline.
SemverMatch(s) ==
    SemverBody(IF Len(s) >= 1 /\ s[Len(s)] = "\n" THEN SubSeq(s, 1, Len(s) - 1) ELSE s)

\* parse_version raises ValueError
ParseRaises(version) == ~SemverMatch(Chars[version]).matched

\* the dict parse_version builds from the groups of the match
VersionInfo(m) ==
    [major |-> IntVal(m.major), minor |-> IntVal(m.minor), patch |-> IntVal(m.patch),
     prerelease |-> m.prerelease, build |-> m.build]

parse_version(version) == VersionInfo(SemverMatch(Chars[version]))

(***************************************************************************)
(* _nat_cmp.  An identifier converts to an int when re.match('[0-9]+')     *)
(* finds a digit at its start; int() then raises ValueError unless every   *)
(* character is a digit.                                                   *)
(***************************************************************************)
StartsWithDigit(text) == Len(text) >= 1 /\ text[1] \in Digits

ConvertRaises(text) ==
    StartsWithDigit(text) /\ \E i \in 1..Len(text) : text[i] \notin Digits

\* the value convert() returns: an int or the text itself
convert(text) ==
    IF StartsWithDigit(text) THEN [int |-> TRUE, n |-> IntVal(text), s |-> <<>>]
    ELSE [int |-> FALSE, n |-> 0, s |-> text]

split_key(key) == [i \in 1..Len(Split(key, ".")) |-> convert(Split(key, ".")[i])]

SplitKeyRaises(key) ==
    \E i \in 1..Len(Split(key, ".")) : ConvertRaises(Split(key, ".")[i])

cmp_prerelease_tag(a, b) ==
    IF a.int /\ b.int THEN cmp(a.n, b.n)
    ELSE IF a.int THEN -1
    ELSE IF b.int THEN 1
    ELSE StrCmp(a.s, b.s)

\* compare_a or '' : None and the empty string both become ''
OrEmpty(x) == IF x = None THEN <<>> ELSE x

NatCmpRaises(compare_a, compare_b) ==
    SplitKeyRaises(OrEmpty(compare_a)) \/ SplitKeyRaises(OrEmpty(compare_b))

\* the first position where zip(a_parts, b_parts) holds two parts that
\* cmp_prerelease_tag tells apart, 0 when it holds none
FirstDifference(a_parts, b_parts) ==
    IF \E i \in 1..Min(Len(a_parts), Len(b_parts)) :
          cmp_prerelease_tag(a_parts[i], b_parts[i]) # 0
    THEN CHOOSE i \in 1..Min(Len(a_parts), Len(b_parts)) :
            /\ cmp_prerelease_tag(a_parts[i], b_parts[i]) # 0
            /\ \A j \in 1..(i - 1) : cmp_prerelease_tag(a_parts[j], b_parts[j]) = 0
    ELSE 0

\* the value the loop over zip(a_parts, b_parts) returns at position i, the
\* `else' of the loop when i = 0
NatCmpAt(a, b, a_parts, b_parts, i) ==
    IF i # 0 THEN cmp_prerelease_tag(a_parts[i], b_parts[i]) ELSE cmp(Len(a), Len(b))

NatCmpParts(a, b, a_parts, b_parts) ==
    NatCmpAt(a, b, a_parts, b_parts, FirstDifference(a_parts, b_parts))

_nat_cmp(compare_a, compare_b) ==
    NatCmpParts(OrEmpty(compare_a), OrEmpty(compare_b),
                split_key(OrEmpty(compare_a)), split_key(OrEmpty(compare_b)))

(***************************************************************************)
(* compare_versions                                                        *)
(***************************************************************************)
\* a compare_versions that looks at patch first, then minor, then major
CoreCmp_patch_first(v1, v2) ==
    IF cmp(v1.patch, v2.patch) # 0 THEN cmp(v1.patch, v2.patch)
    ELSE IF cmp(v1.minor, v2.minor) # 0 THEN cmp(v1.minor, v2.minor)
    ELSE cmp(v1.major, v2.major)

CoreCmp(v1, v2) ==
    IF cmp(v1.major, v2.major) # 0 THEN cmp(v1.major, v2.major)
    ELSE IF cmp(v1.minor, v2.minor) # 0 THEN cmp(v1.minor, v2.minor)
    ELSE cmp(v1.patch, v2.patch)

\* _nat_cmp raises on the prereleases of two parsed versions with equal cores
InfoCompareRaises(v1, v2) ==
    CoreCmp(v1, v2) = 0 /\ NatCmpRaises(v1.prerelease, v2.prerelease)

\* compare_versions raises ValueError
CompareRaises(version1, version2) ==
    \/ ParseRaises(version1)
    \/ ParseRaises(version2)
    \/ InfoCompareRaises(parse_version(version1), parse_version(version2))

\* `not prerelease1': None or the empty string
Falsy(x) == x = None \/ x = <<>>

\* the tail of compare_versions once the cores are equal
PrereleaseCmp(v1, v2, prerelease_cmp) ==
    IF prerelease_cmp = 0 THEN 0
    ELSE IF Falsy(v1.prerelease) THEN 1
    ELSE IF Falsy(v2.prerelease) THEN -1
    ELSE prerelease_cmp

\* compare_versions on two parsed versions
InfoCompare(v1, v2) ==
    IF CoreCmp(v1, v2) # 0 THEN CoreCmp(v1, v2)
    ELSE PrereleaseCmp(v1, v2, _nat_cmp(v1.prerelease, v2.prerelease))

compare_versions(version1, version2) ==
    InfoCompare(parse_version(version1), parse_version(version2))

(***************************************************************************)
(* SemverKeySort and sorted(versions, key=SemverKeySort).  sorted() orders *)
(* the keys with __lt__ only.  For a list shorter than 64 elements CPython *)
(* finds the leading run (count_run), reverses it when it is strictly      *)
(* descending, and inserts the remaining elements one at a time by binary  *)
(* search (binarysort).  A comparison that raises aborts the sort.         *)
(***************************************************************************)
\* compare_versions on every pair of version strings, computed once:
\* whether the call raises and, when it returns, the value it returns
CompareTable ==
    [version1 \in VersionStrings, version2 \in VersionStrings |->
        IF CompareRaises(version1, version2) THEN [raised |-> TRUE, value |-> 0]
        ELSE [raised |-> FALSE, value |-> compare_versions(version1, version2)]]

\* SemverKeySort.__lt__ raises: compare_versions does
LtRaises(version, other_version) == CompareTable[version, other_version].raised

\* SemverKeySort.__lt__
lt(version, other_version) == CompareTable[version, other_version].value < 0

Reverse(xs) == [i \in 1..Len(xs) |-> xs[Len(xs) + 1 - i]]

RECURSIVE CountRunFrom(_, _, _)
CountRunFrom(xs, desc, i) ==
    IF i = Len(xs) THEN [n |-> i, desc |-> desc, raised |-> FALSE]
    ELSE IF LtRaises(xs[i + 1], xs[i]) THEN [n |-> i, desc |-> desc, raised |-> TRUE]
    ELSE IF lt(xs[i + 1], xs[i]) = desc THEN CountRunFrom(xs, desc, i + 1)
    ELSE [n |-> i, desc |-> desc, raised |-> FALSE]

count_run(xs) ==
    IF Len(xs) <= 1 THEN [n |-> Len(xs), desc |-> FALSE, raised |-> FALSE]
    ELSE IF LtRaises(xs[2], xs[1]) THEN [n |-> 1, desc |-> FALSE, raised |-> TRUE]
    ELSE CountRunFrom(xs, lt(xs[2], xs[1]), 2)

\* the binary search of binarysort over the sorted prefix, offsets l <= pos <= r
RECURSIVE BinarySearch(_, _, _, _)
BinarySearch(prefix, pivot, l, r) ==
    IF l >= r THEN [pos |-> l, raised |-> FALSE]
    ELSE LET p == l + ((r - l) \div 2)
         IN  IF LtRaises(pivot, prefix[p + 1]) THEN [pos |-> l, raised |-> TRUE]
             ELSE IF lt(pivot, prefix[p + 1]) THEN BinarySearch(prefix, pivot, l, p)
             ELSE BinarySearch(prefix, pivot, p + 1, r)

\* prefix with pivot put in at offset pos
InsertAt(prefix, pivot, pos) ==
    SubSeq(prefix, 1, pos) \o << pivot >> \o SubSeq(prefix, pos + 1, Len(prefix))

\* binarysort: prefix is sorted, rest is still to be inserted
RECURSIVE binarysort(_, _), Insert(_, _, _)
binarysort(prefix, rest) ==
    IF rest = <<>> THEN [out |-> prefix, raised |-> FALSE]
    ELSE Insert(prefix, rest, BinarySearch(prefix, Head(rest), 0, Len(prefix)))

\* one step of binarysort: the head of rest goes where the search found
Insert(prefix, rest, found) ==
    IF found.raised THEN [out |-> prefix \o rest, raised |-> TRUE]
    ELSE binarysort(InsertAt(prefix, Head(rest), found.pos), Tail(rest))

\* the list with its leading run in ascending order
RunAscending(xs, run) ==
    IF run.desc THEN Reverse(SubSeq(xs, 1, run.n)) ELSE SubSeq(xs, 1, run.n)

\* list.sort once count_run has measured the leading run
SortFromRun(xs, run) ==
    IF run.raised THEN [out |-> xs, raised |-> TRUE]
    ELSE binarysort(RunAscending(xs, run), SubSeq(xs, run.n + 1, Len(xs)))

ListSort(xs) == SortFromRun(xs, count_run(xs))

\* sorted(versions, key=SemverKeySort) raises ValueError
SortRaises(versions) == ListSort(versions).raised

\* a refresh_repository that keeps the versions in the order it found them
sorted_as_found(versions) == versions

sorted(versions) == ListSort(versions).out

(***************************************************************************)
(* file_hash and file_sums.  A file's content is the sequence of the       *)
(* blocks of `blocksize' (65536) bytes that successive read(blocksize)     *)
(* calls return; the last block may be shorter, an empty file has none.    *)
(* A hasher is collision free: its hexdigest is the algorithm together     *)
(* with everything update() was fed.                                       *)
(***************************************************************************)
\* hasher.hexdigest() after the blocks in fed were passed to hasher.update()
hexdigest(hasher, fed) == << hasher, fed >>

\* fobj.read(blocksize) on a freshly opened file
ReadBlock(content) == IF content = <<>> THEN <<>> ELSE << Head(content) >>

file_hash(content, hasher) ==
    LET block == ReadBlock(content)
    IN  IF Len(block) > 0 THEN hexdigest(hasher, block) ELSE hexdigest(hasher, <<>>)

file_sums(content) ==
    [md5 |-> file_hash(content, "md5"), sha256 |-> file_hash(content, "sha256")]

\* the digest of the whole content: hashlib over all the bytes of the file
RefHash(content, hasher) == hexdigest(hasher, content)

RefSums(content) == [md5 |-> RefHash(content, "md5"), sha256 |-> RefHash(content, "sha256")]

(***************************************************************************)
(* The repository directory tree.  A path is the sequence of its           *)
(* components below repo_dir; a disk is the set of directories that exist  *)
(* and the content of every file that exists.  A file's content is a       *)
(* sequence of blocks (see file_hash); a block is a tagged tuple.          *)
(***************************************************************************)
Root == <<>>

NoDisk == [dirs |-> {}, files |-> <<>>]

IsFile(d, path) == path \in DOMAIN d.files

\* The place the file system resolves a path to.  The disk holds places: a
\* `..' component steps back to the parent directory, and a place that starts
\* with `..' lies outside repo_dir.  done is the place reached so far, todo
\* the components still to follow.
RECURSIVE ResolvePath(_, _)
ResolvePath(done, todo) ==
    IF todo = <<>> THEN done
    ELSE IF Head(todo) = ".." /\ done # <<>> /\ done[Len(done)] # ".."
    THEN ResolvePath(SubSeq(done, 1, Len(done) - 1), Tail(todo))
    ELSE ResolvePath(Append(done, Head(todo)), Tail(todo))

Resolve(path) == ResolvePath(<<>>, path)

\* os.path.exists: every directory on the way is there, and so is the place
Exists(d, path) ==
    /\ \A i \in 0..(Len(path) - 1) : Resolve(SubSeq(path, 1, i)) \in d.dirs
    /\ Resolve(path) \in d.dirs \/ IsFile(d, Resolve(path))

\* os.makedirs: the directory and every missing parent
makedirs(d, path) ==
    [d EXCEPT !.dirs = @ \cup {Resolve(SubSeq(path, 1, i)) : i \in 0..Len(path)}]

\* open(path, 'w') ... f.write(content)
WriteFile(d, path, content) ==
    [d EXCEPT !.files = (Resolve(path) :> content) @@ @]

\* open(path, 'rb')
ReadFile(d, path) == d.files[Resolve(path)]

\* the text a program wrote in one piece fits one block
JsonBlock(doc) == << "json", doc >>

TextBlock(text) == << "text", text >>

\* json.load of a file json.dumps wrote
JsonDoc(content) == content[1][2]

(***************************************************************************)
(* Python dicts keep insertion order and json.dumps writes the items in    *)
(* that order: a dict is the sequence of its << key, value >> items.       *)
(***************************************************************************)
DictHas(dict, key) == \E i \in 1..Len(dict) : dict[i][1] = key

DictGet(dict, key) == dict[CHOOSE i \in 1..Len(dict) : dict[i][1] = key][2]

\* dict[key] = value: a new key goes last, an existing key keeps its place
DictSet(dict, key, value) ==
    IF DictHas(dict, key)
    THEN [i \in 1..Len(dict) |-> IF dict[i][1] = key THEN << key, value >> ELSE dict[i]]
    ELSE Append(dict, << key, value >>)

DictKeys(dict) == [i \in 1..Len(dict) |-> dict[i][1]]

InList(list, x) == \E i \in 1..Len(list) : list[i] = x

(***************************************************************************)
(* Repository layout                                                       *)
(***************************************************************************)
PluginsJson == << "plugins.json" >>

\* '%s.%s-%s' % (plugin_group, plugin_name, plugin_version)
PluginKey(group, name, version) == group \o "." \o name \o "-" \o version

\* os.path.join below repo_dir: an empty component adds no level
NonEmpty(component) == component # ""

JoinPath(components) == SelectSeq(components, NonEmpty)

\* os.path.join(repo_dir, plugin_group, plugin_name, plugin_version)
PluginDir(group, name, version) == JoinPath(<< group, name, version >>)

\* os.path.join(plugin_dir, plugin_key) + ext
KeyFile(group, name, version, ext) ==
    PluginDir(group, name, version) \o << PluginKey(group, name, version) \o ext >>

MetadataFile(group, name, version, ext) ==
    PluginDir(group, name, version) \o << "metadata.json" \o ext >>

\* fnmatch.filter(filenames, 'metadata.json')
IsMetadataPath(path) == Len(path) >= 1 /\ path[Len(path)] = "metadata.json"

(***************************************************************************)
(* refresh_repository                                                      *)
(***************************************************************************)
\* the place lies under repo_dir
InsideRepo(path) == path = <<>> \/ path[1] # ".."

\* the metadata.json files os.walk finds under repo_dir
MetaPaths(d) == {path \in DOMAIN d.files : InsideRepo(path) /\ IsMetadataPath(path)}

\* os.walk(repo_dir) lists the entries of a directory in the order the file
\* system returns them, which is arbitrary: it reports the files of a
\* directory, then walks its subdirectories one after the other in that order.
\* WalkFrom gives every order in which the walk of the directory n - 1 levels
\* below repo_dir can find the files in paths.
RECURSIVE WalkFrom(_, _), WalkSubdirs(_, _)
WalkFrom(paths, n) ==
    LET here == {path \in paths : Len(path) = n}
        first == IF here = {} THEN <<>> ELSE << CHOOSE path \in here : TRUE >>
    IN  {first \o rest : rest \in WalkSubdirs(paths \ here, n)}

WalkSubdirs(paths, n) ==
    IF paths = {} THEN {<<>>}
    ELSE UNION {
            LET inside == {path \in paths : path[n] = dirname}
            IN  {found \o rest : found \in WalkFrom(inside, n + 1),
                                 rest \in WalkSubdirs(paths \ inside, n)}
            : dirname \in {path[n] : path \in paths}}

\* the orders in which `for root, dirnames, filenames in os.walk(repo_dir)' can
\* fill fns
WalkOrders(d) == WalkFrom(MetaPaths(d), 1)

EmptyDb == << << "groups", <<>> >> >>

\* json.load(f) raises JSONDecodeError: the file does not hold a JSON document
JsonLoadRaises(content) == content = <<>> \/ content[1][1] # "json"

\* plugin_key = '%s.%s-%s' % (meta['group'], meta['name'], meta['version'])
\* raises KeyError: the document lacks one of the three keys
KeyRaises(meta) == ~({"group", "name", "version"} \subseteq DOMAIN meta)

\* the body of `for fn in fns' raises for this record: a group called
\* "groups" finds the list plugin_db['groups'] where its dict should be,
\* and indexing the list with the plugin name is a TypeError
RecordRaises(meta) == meta.group = "groups"

\* a record loop that appends the group of every record it reads
AddGroupName_every_record(plugin_db, group) ==
    DictSet(plugin_db, "groups", Append(DictGet(plugin_db, "groups"), group))

\* if meta['group'] not in plugin_db['groups']: append it
AddGroupName(plugin_db, group) ==
    IF ~InList(DictGet(plugin_db, "groups"), group)
    THEN DictSet(plugin_db, "groups", Append(DictGet(plugin_db, "groups"), group))
    ELSE plugin_db

\* if meta['group'] not in plugin_db: plugin_db[meta['group']] = {}
AddGroupDict(plugin_db, group) ==
    IF ~DictHas(plugin_db, group) THEN DictSet(plugin_db, group, <<>>) ELSE plugin_db

\* if meta['name'] not in plugin_db[meta['group']]: latest None, versions []
AddName(of_group, name) ==
    IF ~DictHas(of_group, name)
    THEN DictSet(of_group, name, << << "latest", None >>, << "versions", <<>> >> >>)
    ELSE of_group

\* if meta['version'] not in plugin_metadata['versions']: append it
AddVersion(plugin_metadata, version) ==
    IF ~InList(DictGet(plugin_metadata, "versions"), version)
    THEN DictSet(plugin_metadata, "versions",
                 Append(DictGet(plugin_metadata, "versions"), version))
    ELSE plugin_metadata

\* the version of the record added to the entry of its name
AddToName(of_group, meta) ==
    DictSet(of_group, meta.name, AddVersion(DictGet(of_group, meta.name), meta.version))

\* the record added to the dict of its group
AddToGroup(plugin_db, meta) ==
    DictSet(plugin_db, meta.group,
            AddToName(AddName(DictGet(plugin_db, meta.group), meta.name), meta))

\* the body of `for fn in fns' for one record
AddRecord(plugin_db, meta) ==
    AddToGroup(AddGroupDict(AddGroupName(plugin_db, meta.group), meta.group), meta)

\* `for fn in fns': read every record in the order the walk found them
RECURSIVE ScanRecords(_, _, _), ScanRecord(_, _, _, _)
ScanRecords(d, fns, plugin_db) ==
    IF fns = <<>> THEN [db |-> plugin_db, result |-> "ok"]
    ELSE IF JsonLoadRaises(d.files[Head(fns)])
    THEN [db |-> plugin_db, result |-> "JSONDecodeError"]
    ELSE ScanRecord(d, fns, plugin_db, JsonDoc(d.files[Head(fns)]))

\* the record meta read from the first of fns, then the rest of fns
ScanRecord(d, fns, plugin_db, meta) ==
    IF KeyRaises(meta) THEN [db |-> plugin_db, result |-> "KeyError"]
    ELSE IF RecordRaises(meta) THEN [db |-> plugin_db, result |-> "TypeError"]
    ELSE ScanRecords(d, Tail(fns), AddRecord(plugin_db, meta))

\* plugin_metadata with its versions sorted and `latest' the last of them
SortedMetadata(plugin_metadata, sorted_versions) ==
    DictSet(DictSet(plugin_metadata, "versions", sorted_versions),
            "latest", sorted_versions[Len(sorted_versions)])

\* plugin_db with the sorted versions of plugin name of group t
WithSorted(plugin_db, t, name, plugin_metadata, sorted_versions) ==
    DictSet(plugin_db, t,
            DictSet(DictGet(plugin_db, t), name,
                    SortedMetadata(plugin_metadata, sorted_versions)))

\* `for name in plugin_db[t]': sort the versions of every plugin of group t
RECURSIVE SortNames(_, _, _), SortName(_, _, _, _)
SortNames(plugin_db, t, names) ==
    IF names = <<>> THEN [db |-> plugin_db, result |-> "ok"]
    ELSE SortName(plugin_db, t, names, DictGet(DictGet(plugin_db, t), Head(names)))

\* the body of the loop for the first of names, then the rest of names
SortName(plugin_db, t, names, plugin_metadata) ==
    IF SortRaises(DictGet(plugin_metadata, "versions"))
    THEN [db |-> plugin_db, result |-> "ValueError"]
    ELSE SortNames(WithSorted(plugin_db, t, Head(names), plugin_metadata,
                              sorted(DictGet(plugin_metadata, "versions"))),
                   t, Tail(names))

\* `for t in plugin_db['groups']'
RECURSIVE SortGroups(_, _), SortGroup(_, _)
SortGroups(plugin_db, groups) ==
    IF groups = <<>> THEN [db |-> plugin_db, result |-> "ok"]
    ELSE SortGroup(groups, SortNames(plugin_db, Head(groups),
                                     DictKeys(DictGet(plugin_db, Head(groups)))))

\* the plugins of the first of groups are sorted: done
SortGroup(groups, done) ==
    IF done.result # "ok" THEN done ELSE SortGroups(done.db, Tail(groups))

\* the sort loop over what the record loop built
SortScanned(scanned) ==
    IF scanned.result # "ok" THEN scanned
    ELSE SortGroups(scanned.db, DictGet(scanned.db, "groups"))

\* a refresh_repository that starts the record loop from the plugins.json
\* it finds instead of from an empty plugin_db
BuildDb_from_previous_index(d, fns) ==
    SortScanned(ScanRecords(d, fns, IF IsFile(d, PluginsJson)
                                    THEN JsonDoc(d.files[PluginsJson]) ELSE EmptyDb))

\* the plugin_db refresh_repository builds from the records in walk order
BuildDb(d, fns) == SortScanned(ScanRecords(d, fns, EmptyDb))

\* writing plugins.json and its two sidecars
WriteIndex(d, plugin_db) ==
    LET d1 == WriteFile(d, PluginsJson, << JsonBlock(plugin_db) >>)
        sums == file_sums(d1.files[PluginsJson])
        d2 == WriteFile(d1, << "plugins.json.md5" >>, << TextBlock(sums.md5) >>)
    IN  WriteFile(d2, << "plugins.json.sha256" >>, << TextBlock(sums.sha256) >>)

\* a refresh_repository that writes plugins.json only when it found a record
WriteBuilt_unless_empty(d, built) ==
    IF built.result # "ok" THEN [disk |-> d, result |-> built.result]
    ELSE IF built.db = EmptyDb THEN [disk |-> d, result |-> "ok"]
    ELSE [disk |-> WriteIndex(d, built.db), result |-> "ok"]

\* the end of refresh_repository: plugins.json is written when no loop raised
WriteBuilt(d, built) ==
    IF built.result # "ok" THEN [disk |-> d, result |-> built.result]
    ELSE [disk |-> WriteIndex(d, built.db), result |-> "ok"]

\* a refresh_repository that opens plugins.json for writing before its loops
RefreshExisting_open_first(d, fns) ==
    WriteBuilt(WriteFile(d, PluginsJson, <<>>), BuildDb(d, fns))

\* refresh_repository on a repo_dir that exists
RefreshExisting(d, fns) == WriteBuilt(d, BuildDb(d, fns))

\* refresh_repository(repo_dir) when the walk finds the records in the order fns
refresh_repository(d, fns) ==
    RefreshExisting(IF ~Exists(d, Root) THEN makedirs(d, Root) ELSE d, fns)

(***************************************************************************)
(* install_plugin.  plugin_zip is the archive handed in: whether the path  *)
(* exists, the archive's content and the plugin.ini inside it.             *)
(***************************************************************************)
\* config.get('plugin', option): "ok" or the exception it raises.  An archive
\* without plugin.ini leaves the parser empty: config.read skips a missing file.
ConfigGetResult(config, option) ==
    IF ~config.file \/ ~config.section THEN "NoSectionError"
    ELSE IF option \notin DOMAIN config.opts THEN "NoOptionError"
    ELSE "ok"

\* the first of the options, read in this order, that raises
RECURSIVE ConfigGetAll(_, _)
ConfigGetAll(config, options) ==
    IF options = <<>> THEN "ok"
    ELSE IF ConfigGetResult(config, Head(options)) # "ok"
         THEN ConfigGetResult(config, Head(options))
         ELSE ConfigGetAll(config, Tail(options))

\* the options install_plugin reads before it creates plugin_dir
IdentityOptions == << "name", "group", "version" >>

\* the options install_plugin reads while it builds plugin_data
DataOptions == << "description", "author", "url" >>

\* an install_plugin that copies the archive under the name of the file it
\* was handed, shutil.copy(plugin_zip, plugin_dir), not under plugin_key
PlaceArchive_under_source_name(d, plugin_zip) ==
    LET config == plugin_zip.ini
        plugin_name == config.opts["name"]
        plugin_group == config.opts["group"]
        plugin_version == config.opts["version"]
        plugin_dir == PluginDir(plugin_group, plugin_name, plugin_version)
        d1 == IF ~Exists(d, plugin_dir) THEN makedirs(d, plugin_dir) ELSE d
        sums == file_sums(plugin_zip.content)
        d2 == WriteFile(d1, KeyFile(plugin_group, plugin_name, plugin_version, ".zip.md5"),
                        << TextBlock(sums.md5) >>)
        d3 == WriteFile(d2, KeyFile(plugin_group, plugin_name, plugin_version, ".zip.sha256"),
                        << TextBlock(sums.sha256) >>)
    IN  WriteFile(d3, plugin_dir \o << plugin_zip.basename >>, plugin_zip.content)

\* lines 346-365: plugin_dir, the archive's sidecars, the copy of the archive
PlaceArchive(d, plugin_zip) ==
    LET config == plugin_zip.ini
        plugin_name == config.opts["name"]
        plugin_group == config.opts["group"]
        plugin_version == config.opts["version"]
        plugin_dir == PluginDir(plugin_group, plugin_name, plugin_version)
        d1 == IF ~Exists(d, plugin_dir) THEN makedirs(d, plugin_dir) ELSE d
        sums == file_sums(plugin_zip.content)
        d2 == WriteFile(d1, KeyFile(plugin_group, plugin_name, plugin_version, ".zip.md5"),
                        << TextBlock(sums.md5) >>)
        d3 == WriteFile(d2, KeyFile(plugin_group, plugin_name, plugin_version, ".zip.sha256"),
                        << TextBlock(sums.sha256) >>)
    IN  WriteFile(d3, KeyFile(plugin_group, plugin_name, plugin_version, ".zip"),
                  plugin_zip.content)

\* lines 369-381
PluginData(plugin_zip, now) ==
    LET config == plugin_zip.ini
        sums == file_sums(plugin_zip.content)
    IN  [name |-> config.opts["name"], group |-> config.opts["group"],
         version |-> config.opts["version"], description |-> config.opts["description"],
         author |-> config.opts["author"], url |-> config.opts["url"],
         install_date |-> now, hashes |-> sums]

\* an install_plugin that writes metadata.json and stops before its sidecars
RecordMetadata_without_sidecars(d, plugin_zip, now) ==
    WriteFile(d, MetadataFile(plugin_zip.ini.opts["group"], plugin_zip.ini.opts["name"],
                              plugin_zip.ini.opts["version"], ""),
              << JsonBlock(PluginData(plugin_zip, now)) >>)

\* lines 383-394: metadata.json and its sidecars
RecordMetadata(d, plugin_zip, now) ==
    LET config == plugin_zip.ini
        plugin_name == config.opts["name"]
        plugin_group == config.opts["group"]
        plugin_version == config.opts["version"]
        plugin_metadata_fn == MetadataFile(plugin_group, plugin_name, plugin_version, "")
        d1 == WriteFile(d, plugin_metadata_fn, << JsonBlock(PluginData(plugin_zip, now)) >>)
        sums == file_sums(ReadFile(d1, plugin_metadata_fn))
        d2 == WriteFile(d1, MetadataFile(plugin_group, plugin_name, plugin_version, ".md5"),
                        << TextBlock(sums.md5) >>)
    IN  WriteFile(d2, MetadataFile(plugin_group, plugin_name, plugin_version, ".sha256"),
                  << TextBlock(sums.sha256) >>)

\* tempfile.mkdtemp(prefix='splr'): a new directory in the temporary
\* directory, under a name no other directory has; tmp is the set of the
\* scratch directories that exist
mkdtemp(tmp, tmpdirname) == tmp \cup {tmpdirname}

\* an install_plugin whose cleanup is skipped
rmtree_left_behind(tmp, tmpdirname) == tmp

\* shutil.rmtree(tmpdirname)
rmtree(tmp, tmpdirname) == tmp \ {tmpdirname}

\* The scratch directories install_plugin leaves.  A path that does not
\* exist raises before mkdtemp; from mkdtemp on everything runs inside
\* try ... finally, so rmtree runs however the body ends.
ScratchAfter(tmp, plugin_zip, tmpdirname) ==
    IF ~plugin_zip.exists THEN tmp
    ELSE rmtree(mkdtemp(tmp, tmpdirname), tmpdirname)

\* install_plugin from line 323 on, repo_dir exists
InstallInto(d, plugin_zip, now) ==
    IF ~plugin_zip.exists THEN [disk |-> d, result |-> "OSError"]
    ELSE IF ConfigGetAll(plugin_zip.ini, IdentityOptions) # "ok"
    THEN [disk |-> d, result |-> ConfigGetAll(plugin_zip.ini, IdentityOptions)]
    ELSE IF ConfigGetAll(plugin_zip.ini, DataOptions) # "ok"
    THEN [disk |-> PlaceArchive(d, plugin_zip),
          result |-> ConfigGetAll(plugin_zip.ini, DataOptions)]
    ELSE [disk |-> RecordMetadata(PlaceArchive(d, plugin_zip), plugin_zip, now),
          result |-> "ok"]

\* install_plugin(plugin_zip, repo_dir) called at time now
install_plugin(d, plugin_zip, now) ==
    InstallInto(IF ~Exists(d, Root) THEN refresh_repository(d, <<>>).disk ELSE d,
                plugin_zip, now)

(***************************************************************************)
(* The archives the install calls draw from.                               *)
(***************************************************************************)
\* one block of an archive file
ZipBlock(x) == << "zip", x >>

\* a plugin.ini with a [plugin] section and the six options
Descriptor(group, name, version) ==
    [file |-> TRUE, section |-> TRUE,
     opts |-> [name |-> name, group |-> group, version |-> version,
               description |-> "a fake plugin", author |-> "somebody",
               url |-> "http://localhost"]]

\* the same plugin.ini without one option
Without(config, option) ==
    [config EXCEPT !.opts = [o \in (DOMAIN config.opts) \ {option} |-> config.opts[o]]]

NoSection == [file |-> TRUE, section |-> FALSE, opts |-> [o \in {} |-> ""]]

NoIni == [file |-> FALSE, section |-> FALSE, opts |-> [o \in {} |-> ""]]

\* An archive file at the path basename: its first block holds the entries
\* that tell it from the other archives (label), more blocks follow in a file
\* longer than one block.
Archive(basename, label, config, more) ==
    [exists |-> TRUE, basename |-> basename,
     content |-> << ZipBlock(label) >> \o more, ini |-> config]

\* a path with no file behind it
MissingPath == [exists |-> FALSE, basename |-> "missing.zip", content |-> <<>>, ini |-> NoIni]

FakePlugin1 == Descriptor("testenv", "fake_plugin1", "0.0.1")

PluginZips ==
    << Archive("fake_plugin1.zip", "fake_plugin1", FakePlugin1, <<>>),
       Archive("fake_plugin1-rebuilt.zip", "fake_plugin1", FakePlugin1, << ZipBlock("more") >>),
       Archive("fake_plugin1-newversion.zip", "fake_plugin1-newversion",
               Descriptor("testenv", "fake_plugin1", "0.1.0"), <<>>),
       Archive("two-part-version.zip", "two-part-version",
               Descriptor("testenv", "fake_plugin1", "1.0"), <<>>),
       Archive("mixed-prerelease.zip", "mixed-prerelease",
               Descriptor("testenv", "fake_plugin1", "1.0.0-1a"), <<>>),
       Archive("build-a.zip", "build-a", Descriptor("testenv", "fake_plugin1", "1.0.0+a"), <<>>),
       Archive("build-b.zip", "build-b", Descriptor("testenv", "fake_plugin1", "1.0.0+b"), <<>>),
       Archive("other-group.zip", "other-group", Descriptor("other", "fake_plugin1", "0.0.1"), <<>>),
       Archive("group-groups.zip", "group-groups",
               Descriptor("groups", "fake_plugin1", "0.0.1"), <<>>),
       Archive("no-name.zip", "no-name", Without(FakePlugin1, "name"), <<>>),
       Archive("no-group.zip", "no-group", Without(FakePlugin1, "group"), <<>>),
       Archive("no-version.zip", "no-version", Without(FakePlugin1, "version"), <<>>),
       Archive("no-description.zip", "no-description", Without(FakePlugin1, "description"), <<>>),
       Archive("no-author.zip", "no-author", Without(FakePlugin1, "author"), <<>>),
       Archive("no-url.zip", "no-url", Without(FakePlugin1, "url"), <<>>),
       Archive("no-section.zip", "no-section", NoSection, <<>>),
       Archive("no-ini.zip", "no-ini", NoIni, <<>>),
       MissingPath >>

(***************************************************************************)
(* State                                                                   *)
(***************************************************************************)
\* the number of commands and calls a run makes
MaxCalls == 3

VARIABLES
    disk,         \* the tree at repo_dir: [dirs, files]
    result,       \* how the last call ended: "ok" or the exception it raised
    calls,        \* the number of calls made so far; the clock of install_date
    last,         \* the last call: "install_plugin", "refresh" or "install"
    reinstalled,  \* history: the plugin directories a later install wrote again
    scratch,      \* the scratch directories that exist in the temporary directory
    removed,      \* history: the plugin directories deleted while the index listed them
    call,         \* a call of a pure function: [fn, args, done, ret]
    race          \* calls that run at the same time: each one's position and locals

vars == << disk, result, calls, last, reinstalled, scratch, removed, call, race >>

NoCall == [fn |-> "none", args |-> <<>>, done |-> FALSE, ret |-> <<>>]

\* no calls run at the same time
NoRace == [installs |-> <<>>, refresh |-> <<>>]

EmptyRepo == [dirs |-> {Root}, files |-> <<>>]

\* the plugin directories that hold a metadata record
Recorded(d) == {SubSeq(path, 1, Len(path) - 1) : path \in MetaPaths(d)}

\* the plugin directory a completed install_plugin of this archive wrote
TargetDir(plugin_zip) ==
    Resolve(PluginDir(plugin_zip.ini.opts["group"], plugin_zip.ini.opts["name"],
                      plugin_zip.ini.opts["version"]))

\* reinstalled after install_plugin ran on plugin_zip from disk d
Rewritten(d, plugin_zip, placed) ==
    IF placed.result = "ok" /\ TargetDir(plugin_zip) \in Recorded(d)
    THEN reinstalled \cup {TargetDir(plugin_zip)}
    ELSE reinstalled

\* repo_dir does not exist yet, or is an empty directory
Init ==
    /\ disk \in {NoDisk, EmptyRepo}
    /\ result = "none"
    /\ calls = 0
    /\ last = "none"
    /\ reinstalled = {}
    /\ scratch = {}
    /\ removed = {}
    /\ call = NoCall
    /\ race = NoRace

\* install_plugin(plugin, repo) called on its own
InstallPlugin(plugin_zip) ==
    /\ calls < MaxCalls
    /\ LET placed == install_plugin(disk, plugin_zip, calls + 1)
       IN  /\ disk' = placed.disk
           /\ result' = placed.result
           /\ reinstalled' = Rewritten(disk, plugin_zip, placed)
    /\ scratch' = ScratchAfter(scratch, plugin_zip, << "splr", calls + 1 >>)
    /\ calls' = calls + 1
    /\ last' = "install_plugin"
    /\ UNCHANGED << removed, call, race >>

\* refresh_repository(repo), the refresh-repo command
Refresh ==
    /\ calls < MaxCalls
    /\ \E fns \in WalkOrders(disk) :
          LET done == refresh_repository(disk, fns)
          IN  /\ disk' = done.disk
              /\ result' = done.result
    /\ calls' = calls + 1
    /\ last' = "refresh"
    /\ UNCHANGED << reinstalled, scratch, removed, call, race >>

\* install(plugin, repo) once install_plugin returned placed: the rebuild
RefreshAfter(placed) ==
    IF placed.result # "ok"
    THEN /\ disk' = placed.disk
         /\ result' = placed.result
    ELSE \E fns \in WalkOrders(placed.disk) :
            LET done == refresh_repository(placed.disk, fns)
            IN  /\ disk' = done.disk
                /\ result' = done.result

\* install(plugin, repo), the install-plugin command
Install(plugin_zip) ==
    /\ calls < MaxCalls
    /\ LET placed ==
             install_plugin(IF ~Exists(disk, Root)
                            THEN refresh_repository(disk, <<>>).disk ELSE disk,
                            plugin_zip, calls + 1)
       IN  /\ reinstalled' = Rewritten(disk, plugin_zip, placed)
           /\ RefreshAfter(placed)
    /\ scratch' = ScratchAfter(scratch, plugin_zip, << "splr", calls + 1 >>)
    /\ calls' = calls + 1
    /\ last' = "install"
    /\ UNCHANGED << removed, call, race >>

Next ==
    \/ \E z \in 1..Len(PluginZips) : InstallPlugin(PluginZips[z])
    \/ Refresh
    \/ \E z \in 1..Len(PluginZips) : Install(PluginZips[z])

Spec == Init /\ [][Next]_vars

(***************************************************************************)
(* A repository that is also changed from outside the program: between    *)
(* two commands somebody deletes a plugin directory or damages a           *)
(* metadata.json; refresh_repository reads whatever it then finds.         *)
(***************************************************************************)
\* rm -r dir: dir and everything below it
RemoveTree(d, dir) ==
    [dirs  |-> {x \in d.dirs : ~(Len(x) >= Len(dir) /\ SubSeq(x, 1, Len(dir)) = dir)},
     files |-> [path \in {q \in DOMAIN d.files :
                             ~(Len(q) > Len(dir) /\ SubSeq(q, 1, Len(dir)) = dir)}
                  |-> d.files[path]]]

\* the metadata.json of the plugin directory dir
RecordFile(dir) == dir \o << "metadata.json" >>

\* the `for fn in fns' loop can read the record of dir: it is a JSON document
\* with group, name and version
Loadable(d, dir) ==
    /\ ~JsonLoadRaises(d.files[RecordFile(dir)])
    /\ ~KeyRaises(JsonDoc(d.files[RecordFile(dir)]))

\* (group, name, version) of a record
Identity(meta) == << meta.group, meta.name, meta.version >>

\* the index document db lists the identity id
IndexLists(db, id) ==
    /\ id[1] # "groups"
    /\ DictHas(db, id[1])
    /\ DictHas(DictGet(db, id[1]), id[2])
    /\ InList(DictGet(DictGet(DictGet(db, id[1]), id[2]), "versions"), id[3])

\* plugins.json on disk d lists the record of dir
Listed(d, dir) ==
    /\ IsFile(d, PluginsJson)
    /\ Loadable(d, dir)
    /\ IndexLists(JsonDoc(d.files[PluginsJson]), Identity(JsonDoc(d.files[RecordFile(dir)])))

\* a metadata.json that is damaged: cut off so that it is no JSON document,
\* or a JSON document that lost its version
Damaged(content, kind) ==
    IF kind = "not json" THEN << TextBlock("{") >>
    ELSE << JsonBlock([k \in (DOMAIN JsonDoc(content)) \ {"version"} |-> JsonDoc(content)[k]]) >>

DamageKinds == {"not json", "no version"}

\* somebody deletes the plugin directory dir
DeleteOutOfBand(dir) ==
    /\ calls < MaxCalls
    /\ disk' = RemoveTree(disk, dir)
    /\ removed' = IF Listed(disk, dir)
                  THEN removed \cup {Identity(JsonDoc(disk.files[RecordFile(dir)]))}
                  ELSE removed
    /\ result' = "none"
    /\ calls' = calls + 1
    /\ last' = "delete"
    /\ UNCHANGED << reinstalled, scratch, call, race >>

\* somebody damages the metadata.json of the plugin directory dir
DamageRecord(dir, kind) ==
    /\ calls < MaxCalls
    /\ Loadable(disk, dir)
    /\ disk' = WriteFile(disk, RecordFile(dir), Damaged(disk.files[RecordFile(dir)], kind))
    /\ result' = "none"
    /\ calls' = calls + 1
    /\ last' = "damage"
    /\ UNCHANGED << reinstalled, scratch, removed, call, race >>

\* Archives whose plugin.ini names a group or a name that is no directory
\* name: install_plugin reads both with config.get and joins them into
\* plugin_dir as they are.
UnsafeZips ==
    << Archive("empty-group.zip", "empty-group", Descriptor("", "fake_plugin1", "0.0.1"), <<>>),
       Archive("parent-group.zip", "parent-group",
               Descriptor("..", "fake_plugin1", "0.0.1"), <<>>),
       Archive("parent-name.zip", "parent-name", Descriptor("testenv", "..", "0.0.1"), <<>>) >>

\* the archives installed into the repository that is changed from outside
WildZips == << PluginZips[1], PluginZips[3], PluginZips[4], PluginZips[8] >> \o UnsafeZips

NextWild ==
    \/ \E z \in 1..Len(WildZips) : InstallPlugin(WildZips[z])
    \/ Refresh
    \/ \E z \in 1..Len(WildZips) : Install(WildZips[z])
    \/ \E dir \in Recorded(disk) : DeleteOutOfBand(dir)
    \/ \E dir \in Recorded(disk), kind \in DamageKinds : DamageRecord(dir, kind)

SpecWild == Init /\ [][NextWild]_vars

(***************************************************************************)
(* Calls that run at the same time on one repository.  Nothing in slpr.py  *)
(* takes a lock, so the file operations of the calls interleave: one step  *)
(* of a call is one operation on the repository (an exists test, a         *)
(* makedirs, the listing of one directory, an open for writing, the write  *)
(* that follows it, the read of one file).  What a call does between two   *)
(* such operations touches only its own locals and belongs to the step     *)
(* that follows.  A position is named after the line of the operation.     *)
(***************************************************************************)
\* open(path, 'w'): the file is there and empty until the write
OpenW(d, path) == WriteFile(d, path, <<>>)

\* os.path.join(plugin_dir, plugin_key) + ext for the archive plugin_zip
ZipKeyFile(plugin_zip, ext) ==
    KeyFile(plugin_zip.ini.opts["group"], plugin_zip.ini.opts["name"],
            plugin_zip.ini.opts["version"], ext)

\* os.path.join(plugin_dir, 'metadata.json') + ext for the archive plugin_zip
ZipMetadataFile(plugin_zip, ext) ==
    MetadataFile(plugin_zip.ini.opts["group"], plugin_zip.ini.opts["name"],
                 plugin_zip.ini.opts["version"], ext)

\* plugin_dir for the archive plugin_zip, as install_plugin joins it
ZipDir(plugin_zip) ==
    PluginDir(plugin_zip.ini.opts["group"], plugin_zip.ini.opts["name"],
              plugin_zip.ini.opts["version"])

\* an install_plugin(plugin_zip, repo_dir) that was called and has not run yet
InstallCalled(plugin_zip) ==
    [pc |-> "l320", zip |-> plugin_zip, install_date |-> 0, md5 |-> <<>>, sha256 |-> <<>>,
     result |-> "none"]

\* the call went on to position pc
Goto(st, pc) == [st EXCEPT !.pc = pc]

\* the call raised
Raise(st, exception) == [st EXCEPT !.pc = "raised", !.result = exception]

\* the call returned
Return(st) == [st EXCEPT !.pc = "returned", !.result = "ok"]

Ended(st) == st.pc \in {"raised", "returned"}

\* an install_plugin that writes metadata.json before the archive and its
\* sidecars
InstallLines_metadata_first ==
    << "l385", "l386", "l355", "l356", "l358", "l359", "l365", "l365w",
       "l388", "l388s", "l390", "l391", "l393", "l394" >>

\* the operations of install_plugin on the files of plugin_dir, in the
\* order of the code: lines 355-394
InstallLines ==
    << "l355", "l356", "l358", "l359", "l365", "l365w", "l385", "l386",
       "l388", "l388s", "l390", "l391", "l393", "l394" >>

\* the place of position pc in InstallLines
LineNo(pc) == CHOOSE i \in 1..Len(InstallLines) : InstallLines[i] = pc

\* the call did the operation at st.pc: on to the next, or return after the last
Advance(st) ==
    IF LineNo(st.pc) = Len(InstallLines) THEN Return(st)
    ELSE Goto(st, InstallLines[LineNo(st.pc) + 1])

\* lines 320-342 on a repo_dir that exists
InstallBegin(d, st) ==
    IF ~st.zip.exists THEN [disk |-> d, st |-> Raise(st, "OSError")]
    ELSE IF ConfigGetAll(st.zip.ini, IdentityOptions) # "ok"
    THEN [disk |-> d, st |-> Raise(st, ConfigGetAll(st.zip.ini, IdentityOptions))]
    ELSE [disk |-> d, st |-> Goto(st, "l348")]

\* os.makedirs(plugin_dir): mkdir of a directory that is there raises
InstallMakedirs(d, st) ==
    IF Exists(d, ZipDir(st.zip)) THEN [disk |-> d, st |-> Raise(st, "FileExistsError")]
    ELSE [disk |-> makedirs(d, ZipDir(st.zip)), st |-> Goto(st, InstallLines[1])]

\* lines 369-385: the options of plugin_data are read and the time is
\* taken, then metadata.json is opened for writing
InstallOpenMetadata(d, st, now) ==
    IF ConfigGetAll(st.zip.ini, DataOptions) # "ok"
    THEN [disk |-> d, st |-> Raise(st, ConfigGetAll(st.zip.ini, DataOptions))]
    ELSE [disk |-> OpenW(d, ZipMetadataFile(st.zip, "")),
          st |-> [Advance(st) EXCEPT !.install_date = now]]

\* One step of install_plugin from position st.pc on disk d; now is the
\* time utcnow() gives at line 376.
InstallStep(d, st, now) ==
    CASE st.pc = "l320" ->
           InstallBegin(IF ~Exists(d, Root) THEN refresh_repository(d, <<>>).disk ELSE d, st)
      [] st.pc = "l348" ->
           [disk |-> d,
            st |-> Goto(st, IF Exists(d, ZipDir(st.zip)) THEN InstallLines[1] ELSE "l349")]
      [] st.pc = "l349" -> InstallMakedirs(d, st)
      [] st.pc = "l355" ->
           [disk |-> OpenW(d, ZipKeyFile(st.zip, ".zip.md5")), st |-> Advance(st)]
      [] st.pc = "l356" ->
           [disk |-> WriteFile(d, ZipKeyFile(st.zip, ".zip.md5"),
                               << TextBlock(file_sums(st.zip.content).md5) >>),
            st |-> Advance(st)]
      [] st.pc = "l358" ->
           [disk |-> OpenW(d, ZipKeyFile(st.zip, ".zip.sha256")), st |-> Advance(st)]
      [] st.pc = "l359" ->
           [disk |-> WriteFile(d, ZipKeyFile(st.zip, ".zip.sha256"),
                               << TextBlock(file_sums(st.zip.content).sha256) >>),
            st |-> Advance(st)]
      [] st.pc = "l365" ->
           [disk |-> OpenW(d, ZipKeyFile(st.zip, ".zip")), st |-> Advance(st)]
      [] st.pc = "l365w" ->
           [disk |-> WriteFile(d, ZipKeyFile(st.zip, ".zip"), st.zip.content),
            st |-> Advance(st)]
      [] st.pc = "l385" -> InstallOpenMetadata(d, st, now)
      [] st.pc = "l386" ->
           [disk |-> WriteFile(d, ZipMetadataFile(st.zip, ""),
                               << JsonBlock(PluginData(st.zip, st.install_date)) >>),
            st |-> Advance(st)]
      [] st.pc = "l388" ->
           [disk |-> d,
            st |-> [Advance(st) EXCEPT
                      !.md5 = file_hash(ReadFile(d, ZipMetadataFile(st.zip, "")), "md5")]]
      [] st.pc = "l388s" ->
           [disk |-> d,
            st |-> [Advance(st) EXCEPT
                      !.sha256 = file_hash(ReadFile(d, ZipMetadataFile(st.zip, "")), "sha256")]]
      [] st.pc = "l390" ->
           [disk |-> OpenW(d, ZipMetadataFile(st.zip, ".md5")), st |-> Advance(st)]
      [] st.pc = "l391" ->
           [disk |-> WriteFile(d, ZipMetadataFile(st.zip, ".md5"), << TextBlock(st.md5) >>),
            st |-> Advance(st)]
      [] st.pc = "l393" ->
           [disk |-> OpenW(d, ZipMetadataFile(st.zip, ".sha256")), st |-> Advance(st)]
      [] st.pc = "l394" ->
           [disk |-> WriteFile(d, ZipMetadataFile(st.zip, ".sha256"),
                               << TextBlock(st.sha256) >>),
            st |-> Advance(st)]

\* the scratch directories after a step of call p from st to next: mkdtemp
\* at line 328, rmtree in the finally clause
ScratchStep(tmp, p, st, next) ==
    IF st.pc = "l320" /\ next.pc # "l320" /\ st.zip.exists
    THEN IF Ended(next) THEN tmp ELSE mkdtemp(tmp, << "splr", p >>)
    ELSE IF Ended(next) THEN rmtree(tmp, << "splr", p >>)
    ELSE tmp

\* an install_plugin that holds a lock from its first write below
\* plugin_dir to its last
CanStep_one_at_a_time(r, p) ==
    /\ ~Ended(r.installs[p])
    /\ \A q \in (DOMAIN r.installs) \ {p} :
          r.installs[q].pc \notin {InstallLines[i] : i \in 2..Len(InstallLines)}

\* call p of the calls r can take its next step: it has not ended, and
\* nothing in lines 346-394 makes it wait for another call
CanStep(r, p) == ~Ended(r.installs[p])

\* install_plugin call p takes its next step
InstallRaceStep(p) ==
    /\ CanStep(race, p)
    /\ LET stepped == InstallStep(disk, race.installs[p], calls + 1)
       IN  /\ disk' = stepped.disk
           /\ race' = [race EXCEPT !.installs[p] = stepped.st]
           /\ scratch' = ScratchStep(scratch, p, race.installs[p], stepped.st)
           /\ result' = IF Ended(stepped.st) THEN stepped.st.result ELSE result
    /\ calls' = IF race.installs[p].pc = "l385" THEN calls + 1 ELSE calls
    /\ last' = "install_plugin"
    /\ UNCHANGED << reinstalled, removed, call >>

\* a refresh_repository(repo_dir) that was called and has not run yet: todo
\* are the directories os.walk still has to list, fns the files it found,
\* at the index of the one the record loop reads next, read what it read
RefreshCalled ==
    [pc |-> "l413", todo |-> <<>>, fns |-> <<>>, at |-> 1, plugin_db |-> EmptyDb,
     read |-> <<>>, md5 |-> <<>>, sha256 |-> <<>>, result |-> "none"]

\* the directories right below dir
Subdirs(d, dir) ==
    {sub \in d.dirs : /\ Len(sub) = Len(dir) + 1
                      /\ SubSeq(sub, 1, Len(dir)) = dir
                      /\ InsideRepo(sub)}

\* the orders a listing can give the entries of a directory in
ListingOrders(entries) ==
    {order \in [1..Cardinality(entries) -> entries] :
        \A i, j \in 1..Cardinality(entries) : order[i] = order[j] => i = j}

\* fnmatch.filter(filenames, 'metadata.json') in the listing of dir
FoundIn(d, dir) ==
    IF IsFile(d, dir \o << "metadata.json" >>) THEN << dir \o << "metadata.json" >> >> ELSE <<>>

\* os.walk lists the first directory of todo and goes on with its
\* subdirectories in the order the listing gave them
WalkStep(d, st, order) ==
    [st EXCEPT !.fns = @ \o FoundIn(d, Head(st.todo)),
               !.todo = order \o Tail(@),
               !.pc = IF order \o Tail(st.todo) = <<>> THEN "l428" ELSE "l424"]

\* the names of the files that are in the directory of the file fn
Beside(d, fn) ==
    {path[Len(path)] : path \in {q \in DOMAIN d.files :
                                    SubSeq(q, 1, Len(q) - 1) = SubSeq(fn, 1, Len(fn) - 1)}}

\* one turn of `for fn in fns': the record is read and added to plugin_db;
\* read keeps, for the properties, which files were beside it at that moment
ReadStep(d, st, scanned) ==
    IF scanned.result # "ok" THEN Raise(st, scanned.result)
    ELSE [st EXCEPT !.plugin_db = scanned.db,
                    !.at = @ + 1,
                    !.read = Append(@, << st.fns[st.at], Beside(d, st.fns[st.at]) >>)]

\* the sort loop, then plugins.json is opened for writing
SortAndOpen(d, st, sorted_db) ==
    IF sorted_db.result # "ok" THEN [disk |-> d, st |-> Raise(st, sorted_db.result)]
    ELSE [disk |-> OpenW(d, PluginsJson),
          st |-> [Goto(st, "l471") EXCEPT !.plugin_db = sorted_db.db]]

\* One step of refresh_repository from position st.pc on disk d; order is
\* the order in which a listing made in this step gives the subdirectories.
RefreshStep(d, st, order) ==
    CASE st.pc = "l413" ->
           [disk |-> IF ~Exists(d, Root) THEN makedirs(d, Root) ELSE d,
            st |-> [Goto(st, "l424") EXCEPT !.todo = << Root >>]]
      [] st.pc = "l424" -> [disk |-> d, st |-> WalkStep(d, st, order)]
      [] st.pc = "l428" /\ st.at <= Len(st.fns) ->
           [disk |-> d,
            st |-> ReadStep(d, st, ScanRecords(d, << st.fns[st.at] >>, st.plugin_db))]
      [] st.pc = "l428" /\ st.at > Len(st.fns) ->
           SortAndOpen(d, st, SortScanned([db |-> st.plugin_db, result |-> "ok"]))
      [] st.pc = "l471" ->
           [disk |-> WriteFile(d, PluginsJson, << JsonBlock(st.plugin_db) >>),
            st |-> Goto(st, "l473")]
      [] st.pc = "l473" ->
           [disk |-> d,
            st |-> [Goto(st, "l473s") EXCEPT !.md5 = file_hash(ReadFile(d, PluginsJson), "md5")]]
      [] st.pc = "l473s" ->
           [disk |-> d,
            st |-> [Goto(st, "l475") EXCEPT
                      !.sha256 = file_hash(ReadFile(d, PluginsJson), "sha256")]]
      [] st.pc = "l475" ->
           [disk |-> OpenW(d, << "plugins.json.md5" >>), st |-> Goto(st, "l476")]
      [] st.pc = "l476" ->
           [disk |-> WriteFile(d, << "plugins.json.md5" >>, << TextBlock(st.md5) >>),
            st |-> Goto(st, "l478")]
      [] st.pc = "l478" ->
           [disk |-> OpenW(d, << "plugins.json.sha256" >>), st |-> Goto(st, "l479")]
      [] st.pc = "l479" ->
           [disk |-> WriteFile(d, << "plugins.json.sha256" >>, << TextBlock(st.sha256) >>),
            st |-> Return(st)]

\* the listing orders the step at position st.pc chooses from
StepOrders(d, st) ==
    IF st.pc = "l424" THEN ListingOrders(Subdirs(d, Head(st.todo))) ELSE {<<>>}

\* no refresh_repository was called
NoRefresh == Goto(RefreshCalled, "none")

\* the refresh_repository call takes its next step
RefreshRaceStep ==
    /\ race.refresh.pc # "none"
    /\ ~Ended(race.refresh)
    /\ \E order \in StepOrders(disk, race.refresh) :
          LET stepped == RefreshStep(disk, race.refresh, order)
          IN  /\ disk' = stepped.disk
              /\ race' = [race EXCEPT !.refresh = stepped.st]
              /\ result' = IF Ended(stepped.st) THEN stepped.st.result ELSE result
    /\ last' = "refresh"
    /\ UNCHANGED << calls, reinstalled, scratch, removed, call >>

\* the archives of the calls that run at the same time: two archives of
\* testenv.fake_plugin1 0.0.1 with different bytes, and a newer version
RaceZips ==
    << PluginZips[1],
       Archive("fake_plugin1-patched.zip", "fake_plugin1-patched", FakePlugin1, <<>>),
       PluginZips[3] >>

\* the repository the calls start on: empty, or after an install_plugin
RaceDisks == {EmptyRepo, install_plugin(EmptyRepo, PluginZips[1], 0).disk}

\* the pairs of archives two install_plugin calls run on at the same
\* time: the same plugin version with different bytes, and two versions
RacePairs == {<< RaceZips[1], RaceZips[2] >>, << RaceZips[1], RaceZips[3] >>}

\* the calls that were made at the same time: one install_plugin and one
\* refresh_repository, or two install_plugin
Races ==
    {[installs |-> << InstallCalled(RaceZips[z]) >>, refresh |-> RefreshCalled]
        : z \in 1..Len(RaceZips)}
    \cup {[installs |-> << InstallCalled(pair[1]), InstallCalled(pair[2]) >>,
           refresh |-> NoRefresh] : pair \in RacePairs}

\* the calls have been made on a repository that exists
InitRace ==
    /\ disk \in RaceDisks
    /\ result = "none"
    /\ calls = 0
    /\ last = "none"
    /\ reinstalled = {}
    /\ scratch = {}
    /\ removed = {}
    /\ call = NoCall
    /\ race \in Races

NextRace ==
    \/ \E p \in DOMAIN race.installs : InstallRaceStep(p)
    \/ RefreshRaceStep

SpecRace == InitRace /\ [][NextRace]_vars

(***************************************************************************)
(* Calls of the pure functions: one call per behaviour, its arguments      *)
(* drawn from bounded sets.                                                *)
(***************************************************************************)
\* the longest list of versions handed to sorted()
MaxVersions == 3

\* the longest file handed to file_sums, in blocks
MaxBlocks == 2

Blocks == {ZipBlock("x"), ZipBlock("y")}

Contents == UNION {[1..n -> Blocks] : n \in 0..MaxBlocks}

\* lists of distinct version strings, as refresh_repository collects them
VersionLists ==
    {versions \in UNION {[1..n -> VersionStrings] : n \in 0..MaxVersions} :
        \A i, j \in 1..Len(versions) : versions[i] = versions[j] => i = j}

Pending(fn, args) ==
    [fn |-> fn, args |-> args, done |-> FALSE, ret |-> [raised |-> FALSE, value |-> <<>>]]

InitCalls ==
    /\ disk = NoDisk
    /\ result = "none"
    /\ calls = 0
    /\ last = "none"
    /\ reinstalled = {}
    /\ scratch = {}
    /\ removed = {}
    /\ race = NoRace
    /\ \/ \E version1, version2 \in VersionStrings :
             call = Pending("compare_versions", << version1, version2 >>)
       \/ \E version \in VersionStrings : call = Pending("parse_version", << version >>)
       \/ \E versions \in VersionLists : call = Pending("sorted", << versions >>)
       \/ \E content_a, content_b \in Contents :
             call = Pending("file_sums", << content_a, content_b >>)

\* compare_versions(version1, version2)
CompareVersionsCall ==
    /\ call.fn = "compare_versions" /\ ~call.done
    /\ call' = [call EXCEPT !.done = TRUE,
                            !.ret = IF CompareRaises(call.args[1], call.args[2])
                                    THEN [raised |-> TRUE, value |-> 0]
                                    ELSE [raised |-> FALSE,
                                          value |-> compare_versions(call.args[1], call.args[2])]]
    /\ UNCHANGED << disk, result, calls, last, reinstalled, scratch, removed, race >>

\* parse_version(version)
ParseVersionCall ==
    /\ call.fn = "parse_version" /\ ~call.done
    /\ call' = [call EXCEPT !.done = TRUE,
                            !.ret = IF ParseRaises(call.args[1])
                                    THEN [raised |-> TRUE, value |-> <<>>]
                                    ELSE [raised |-> FALSE,
                                          value |-> parse_version(call.args[1])]]
    /\ UNCHANGED << disk, result, calls, last, reinstalled, scratch, removed, race >>

\* sorted(versions, key=SemverKeySort)
SortedCall ==
    /\ call.fn = "sorted" /\ ~call.done
    /\ call' = [call EXCEPT !.done = TRUE,
                            !.ret = IF SortRaises(call.args[1])
                                    THEN [raised |-> TRUE, value |-> <<>>]
                                    ELSE [raised |-> FALSE, value |-> sorted(call.args[1])]]
    /\ UNCHANGED << disk, result, calls, last, reinstalled, scratch, removed, race >>

\* file_sums(filename) on each of two files
FileSumsCall ==
    /\ call.fn = "file_sums" /\ ~call.done
    /\ call' = [call EXCEPT !.done = TRUE,
                            !.ret = [raised |-> FALSE,
                                     value |-> << file_sums(call.args[1]),
                                                  file_sums(call.args[2]) >>]]
    /\ UNCHANGED << disk, result, calls, last, reinstalled, scratch, removed, race >>

NextCalls ==
    \/ CompareVersionsCall
    \/ ParseVersionCall
    \/ SortedCall
    \/ FileSumsCall

SpecCalls == InitCalls /\ [][NextCalls]_vars

(***************************************************************************)
(* Vocabulary of the properties                                            *)
(***************************************************************************)
\* everything below repo_dir except repo_dir itself and the index files
PackageTree(d) ==
    [dirs  |-> {dir \in d.dirs : Len(dir) >= 1},
     files |-> [path \in {q \in DOMAIN d.files : Len(q) >= 2} |-> d.files[path]]]

\* the names of the files in a directory
FilesIn(d, dir) ==
    {path[Len(path)] : path \in {q \in DOMAIN d.files : SubSeq(q, 1, Len(q) - 1) = dir}}

\* the record in a plugin directory
RecordIn(d, dir) == JsonDoc(d.files[dir \o << "metadata.json" >>])

\* the last call was an install_plugin that ran to its end on this directory
JustInstalled(dir) == dir \in Recorded(disk) /\ RecordIn(disk, dir).install_date = calls

\* the last call finished with a rebuild of plugins.json
IndexFresh == last \in {"refresh", "install"} /\ result = "ok"

\* the index document on disk
Index == JsonDoc(disk.files[PluginsJson])

\* the `versions' and `latest' the index document db holds for a plugin
VersionsOf(db, group, name) == DictGet(DictGet(DictGet(db, group), name), "versions")

LatestOf(db, group, name) == DictGet(DictGet(DictGet(db, group), name), "latest")

\* the version strings of the records on disk of one plugin
VersionsOnDisk(d, group, name) ==
    {RecordIn(d, dir).version :
        dir \in {r \in Recorded(d) : RecordIn(d, r).group = group /\ RecordIn(d, r).name = name}}

Occurrences(list, x) == Cardinality({i \in 1..Len(list) : list[i] = x})

(***************************************************************************)
(* Properties                                                              *)
(***************************************************************************)
\* C1: when the plugin.ini lacks a required key, so that install_plugin fails
\* with NoOptionError, the call leaves the package tree as it was: no plugin
\* directory and no file below it is created.
C1_MissingKeyLeavesTreeUnchanged ==
    [][(calls' # calls /\ result' = "NoOptionError")
          => PackageTree(disk') = PackageTree(disk)]_vars

\* C2: a descriptor whose version is not a SemVer string is rejected before
\* anything is written: no plugin directory, and no file in one, ever stands
\* under a version that parse_version refuses.
C2_InvalidVersionNeverPlaced ==
    /\ \A dir \in disk.dirs : Len(dir) = 3 => ~ParseRaises(dir[3])
    /\ \A path \in DOMAIN disk.files : Len(path) = 4 => ~ParseRaises(path[3])

\* C3: file_sums digests the whole content of a file: its result is the
\* reference digest of all the blocks, and two files that share their first
\* block and differ after it get different digests.
C3_DigestCoversWholeFile ==
    (call.fn = "file_sums" /\ call.done) =>
        /\ call.ret.value[1] = RefSums(call.args[1])
        /\ call.ret.value[2] = RefSums(call.args[2])
        /\ ( /\ Len(call.args[1]) >= 1 /\ Len(call.args[2]) >= 1
             /\ call.args[1][1] = call.args[2][1]
             /\ call.args[1] # call.args[2] )
           => call.ret.value[1] # call.ret.value[2]

\* C4: after a successful install_plugin every sidecar of the plugin directory
\* it wrote describes the file next to it: the archive's sidecars and the
\* `hashes' of metadata.json are the digest of the stored archive, and the
\* sidecars of metadata.json are the digest of metadata.json, not the archive's.
C4_SidecarsDescribeTheirFile ==
    \A dir \in Recorded(disk) : JustInstalled(dir) =>
        LET zip == disk.files[KeyFile(dir[1], dir[2], dir[3], ".zip")]
            meta == disk.files[MetadataFile(dir[1], dir[2], dir[3], "")]
            zipmd5 == disk.files[KeyFile(dir[1], dir[2], dir[3], ".zip.md5")]
            zipsha == disk.files[KeyFile(dir[1], dir[2], dir[3], ".zip.sha256")]
            metamd5 == disk.files[MetadataFile(dir[1], dir[2], dir[3], ".md5")]
            metasha == disk.files[MetadataFile(dir[1], dir[2], dir[3], ".sha256")]
        IN  /\ zipmd5 = << TextBlock(RefHash(zip, "md5")) >>
            /\ zipsha = << TextBlock(RefHash(zip, "sha256")) >>
            /\ JsonDoc(meta).hashes = RefSums(zip)
            /\ metamd5 = << TextBlock(RefHash(meta, "md5")) >>
            /\ metasha = << TextBlock(RefHash(meta, "sha256")) >>
            /\ metamd5 # zipmd5
            /\ metasha # zipsha

\* C5: after a successful install command (or rebuild), for every plugin with a
\* record on disk the index lists exactly the version strings on disk, each
\* once, in ascending compare_versions order, and `latest' is the last of them.
C5_IndexListsVersionsAscending ==
    IndexFresh =>
        \A dir \in Recorded(disk) :
            LET group == RecordIn(disk, dir).group
                name == RecordIn(disk, dir).name
                versions == VersionsOf(Index, group, name)
            IN  /\ {versions[i] : i \in 1..Len(versions)} = VersionsOnDisk(disk, group, name)
                /\ Len(versions) = Cardinality(VersionsOnDisk(disk, group, name))
                /\ \A i, j \in 1..Len(versions) :
                      i < j => /\ ~CompareRaises(versions[i], versions[j])
                               /\ compare_versions(versions[i], versions[j]) <= 0
                /\ LatestOf(Index, group, name) = versions[Len(versions)]

\* the install commands of the scenario: 0.0.1, then 0.1.0 of testenv.fake_plugin1
C5_Witness ==
    /\ last = "install" /\ result = "ok"
    /\ VersionsOnDisk(disk, "testenv", "fake_plugin1") = {"0.0.1", "0.1.0"}
    /\ RecordIn(disk, PluginDir("testenv", "fake_plugin1", "0.1.0")).install_date = calls
    /\ VersionsOf(Index, "testenv", "fake_plugin1") = << "0.0.1", "0.1.0" >>
    /\ LatestOf(Index, "testenv", "fake_plugin1") = "0.1.0"

\* C6: compare_versions is defined on every pair of valid version strings: it
\* returns -1, 0 or 1 without raising, and swapping the arguments negates the
\* result.
C6_CompareDefinedOnValidVersions ==
    ( /\ call.fn = "compare_versions" /\ call.done
      /\ ~ParseRaises(call.args[1]) /\ ~ParseRaises(call.args[2]) )
    => /\ ~call.ret.raised
       /\ call.ret.value \in {-1, 0, 1}
       /\ ~CompareRaises(call.args[2], call.args[1])
       /\ call.ret.value = 0 - compare_versions(call.args[2], call.args[1])

\* C7: the versions list the index holds for a plugin is the same for every
\* order in which the walk can find the records, and no two of its entries
\* have equal precedence (versions that differ in build metadata only are
\* one entry).
C7_SortIgnoresInputOrder ==
    IndexFresh =>
        \A dir \in Recorded(disk) :
            LET group == RecordIn(disk, dir).group
                name == RecordIn(disk, dir).name
                versions == VersionsOf(Index, group, name)
            IN  /\ \A fns \in WalkOrders(disk) :
                      /\ BuildDb(disk, fns).result = "ok"
                      /\ VersionsOf(BuildDb(disk, fns).db, group, name) = versions
                /\ \A i, j \in 1..Len(versions) :
                      i # j => /\ ~CompareRaises(versions[i], versions[j])
                               /\ compare_versions(versions[i], versions[j]) # 0

\* C8: a rebuild writes the same plugins.json whatever the order in which the
\* walk finds the records: every walk order over the records on disk builds
\* the document that is on disk.
C8_RebuildIgnoresWalkOrder ==
    IndexFresh =>
        \A fns \in WalkOrders(disk) :
            /\ BuildDb(disk, fns).result = "ok"
            /\ BuildDb(disk, fns).db = Index

C10_EarlyFailureLeavesRepoUntouched ==
    [][(calls' # calls /\ result' \in {"OSError", "NoSectionError"})
          => disk' = disk]_vars

\* C11: every install_plugin call that creates the scratch extraction
\* directory removes it again, on success and on every failure path: when the
\* call has returned or raised, no scratch directory is left.
C11_ScratchRemovedOnEveryExit == scratch = {}

\* an install_plugin that extracted the archive, wrote the archive into the
\* repository and then raised on a missing option
C11_Witness ==
    /\ last = "install_plugin" /\ result = "NoOptionError"
    /\ \E path \in DOMAIN disk.files : Len(path) = 4
    /\ scratch = {}

\* the core triple of a valid version string
Triple(version) ==
    << parse_version(version).major, parse_version(version).minor,
       parse_version(version).patch >>

\* the dot-separated identifiers of the prerelease of a valid version string
\* that carries one
PrereleaseIds(version) == Split(parse_version(version).prerelease, ".")

HasPrerelease(version) == parse_version(version).prerelease # None

\* an identifier that is an integer: decimal digits only
IsInteger(id) == Len(id) >= 1 /\ \A i \in 1..Len(id) : id[i] \in Digits

\* the precedence of two prerelease identifiers: numerically when both are
\* integers, an integer below an alphanumeric, lexicographically otherwise
IdPrecedence(a, b) ==
    IF IsInteger(a) /\ IsInteger(b) THEN cmp(IntVal(a), IntVal(b))
    ELSE IF IsInteger(a) THEN -1
    ELSE IF IsInteger(b) THEN 1
    ELSE StrCmp(a, b)

\* the precedence of two lists of identifiers: the first pair that differs
\* decides, and when every shared pair is equal the shorter list is lower
PrereleasePrecedence(as, bs) ==
    IF \E i \in 1..Min(Len(as), Len(bs)) : IdPrecedence(as[i], bs[i]) # 0
    THEN IdPrecedence(as[CHOOSE i \in 1..Min(Len(as), Len(bs)) :
                            /\ IdPrecedence(as[i], bs[i]) # 0
                            /\ \A j \in 1..(i - 1) : IdPrecedence(as[j], bs[j]) = 0],
                      bs[CHOOSE i \in 1..Min(Len(as), Len(bs)) :
                            /\ IdPrecedence(as[i], bs[i]) # 0
                            /\ \A j \in 1..(i - 1) : IdPrecedence(as[j], bs[j]) = 0])
    ELSE cmp(Len(as), Len(bs))

\* a finished call of compare_versions on two valid version strings
ComparedValid ==
    /\ call.fn = "compare_versions" /\ call.done
    /\ ~ParseRaises(call.args[1]) /\ ~ParseRaises(call.args[2])

\* C12: for two valid versions with equal major.minor.patch that both carry a
\* prerelease, compare_versions returns the precedence of their prerelease
\* identifiers: the first differing pair decides, fewer identifiers is lower.
C12_PrereleaseIdentifiersDecide ==
    ( /\ ComparedValid
      /\ Triple(call.args[1]) = Triple(call.args[2])
      /\ HasPrerelease(call.args[1]) /\ HasPrerelease(call.args[2]) )
    => /\ ~call.ret.raised
       /\ call.ret.value = PrereleasePrecedence(PrereleaseIds(call.args[1]),
                                                PrereleaseIds(call.args[2]))

\* C13: a release is strictly greater than any prerelease of the same core
\* triple: compare_versions("X.Y.Z-P", "X.Y.Z") = -1 and
\* compare_versions("X.Y.Z", "X.Y.Z-P") = 1 for every valid prerelease P.
C13_ReleaseAbovePrerelease ==
    ( /\ ComparedValid
      /\ Triple(call.args[1]) = Triple(call.args[2])
      /\ HasPrerelease(call.args[1]) /\ ~HasPrerelease(call.args[2]) )
    => /\ ~call.ret.raised
       /\ call.ret.value = -1
       /\ ~CompareRaises(call.args[2], call.args[1])
       /\ compare_versions(call.args[2], call.args[1]) = 1

\* triple a is below triple b: the first field that differs, of major, minor
\* and patch in this order, is smaller
TripleBelow(a, b) ==
    \/ a[1] < b[1]
    \/ a[1] = b[1] /\ a[2] < b[2]
    \/ a[1] = b[1] /\ a[2] = b[2] /\ a[3] < b[3]

\* C14: for valid versions whose (major, minor, patch) triples differ the
\* numeric order of the triples decides, whatever the prerelease and build
\* parts are: triple(a) < triple(b) gives compare(a, b) = -1 and
\* compare(b, a) = 1.
C14_CoreTripleDecides ==
    ( /\ ComparedValid
      /\ TripleBelow(Triple(call.args[1]), Triple(call.args[2])) )
    => /\ ~call.ret.raised
       /\ call.ret.value = -1
       /\ ~CompareRaises(call.args[2], call.args[1])
       /\ compare_versions(call.args[2], call.args[1]) = 1

\* 2.0.0 against 10.0.0: numerically below, as text above
C14_Witness ==
    /\ call.fn = "compare_versions" /\ call.done
    /\ call.args = << "2.0.0", "10.0.0" >>
    /\ call.ret = [raised |-> FALSE, value |-> -1]

\* the plugin directories of disk d whose metadata.json the record loop
\* cannot read
Malformed(d) == {dir \in Recorded(d) : ~Loadable(d, dir)}

\* C15: one malformed metadata.json (no JSON, or a document without group,
\* name or version) does not abort refresh_repository: the rebuild completes,
\* and plugins.json lists every record on disk that is well formed.
C15_MalformedRecordSkipped ==
    (last = "refresh" /\ Malformed(disk) # {}) =>
        /\ result = "ok"
        /\ \A dir \in Recorded(disk) \ Malformed(disk) : Listed(disk, dir)

\* the groups an index document has an entry for
IndexGroups(db) == {DictKeys(db)[i] : i \in 1..Len(db)} \ {"groups"}

\* the (group, name) pairs an index document has an entry for
IndexNames(db) ==
    UNION {{<< group, DictKeys(DictGet(db, group))[i] >> : i \in 1..Len(DictGet(db, group))}
           : group \in IndexGroups(db)}

\* the identities an index document lists
IndexIdentities(db) ==
    UNION {{<< gn[1], gn[2], VersionsOf(db, gn[1], gn[2])[i] >>
              : i \in 1..Len(VersionsOf(db, gn[1], gn[2]))}
           : gn \in IndexNames(db)}

\* the identities of the records on disk d
IdentitiesOnDisk(d) == {Identity(RecordIn(d, dir)) : dir \in Recorded(d)}

\* C16: refresh_repository replaces the previous index in full: the
\* plugins.json it wrote lists exactly the identities whose metadata.json is
\* on disk, and has no group and no name left over without a version on disk.
C16_RebuildReplacesIndex ==
    IndexFresh =>
        /\ IndexIdentities(Index) = IdentitiesOnDisk(disk)
        /\ IndexGroups(Index) = {id[1] : id \in IdentitiesOnDisk(disk)}
        /\ IndexNames(Index) = {<< id[1], id[2] >> : id \in IdentitiesOnDisk(disk)}

\* a plugin directory was deleted while plugins.json listed it, and the
\* rebuild after that dropped it from the index
C16_Witness ==
    /\ IndexFresh
    /\ \E id \in removed : id \notin IdentitiesOnDisk(disk) /\ ~IndexLists(Index, id)

\* the groups of the records on disk d
GroupsOnDisk(d) == {RecordIn(d, dir).group : dir \in Recorded(d)}

\* C17: in every index refresh_repository wrote, the top-level `groups' list
\* holds exactly the groups of the records found, each once, every listed
\* group has its own name-to-versions mapping, and nothing else is listed.
C17_GroupsListIsUnion ==
    IndexFresh =>
        LET groups == DictGet(Index, "groups")
        IN  /\ {groups[i] : i \in 1..Len(groups)} = GroupsOnDisk(disk)
            /\ \A group \in GroupsOnDisk(disk) : Occurrences(groups, group) = 1
            /\ Len(groups) = Cardinality(GroupsOnDisk(disk))
            /\ IndexGroups(Index) = GroupsOnDisk(disk)
            /\ \A group \in GroupsOnDisk(disk) :
                  {DictKeys(DictGet(Index, group))[i] : i \in 1..Len(DictGet(Index, group))}
                    = {RecordIn(disk, dir).name :
                         dir \in {r \in Recorded(disk) : RecordIn(disk, r).group = group}}

\* two versions of a plugin of group testenv and a plugin of group other
C17_Witness ==
    /\ IndexFresh
    /\ GroupsOnDisk(disk) = {"testenv", "other"}
    /\ Cardinality(VersionsOnDisk(disk, "testenv", "fake_plugin1")) = 2
    /\ Len(DictGet(Index, "groups")) = 2

\* the six files of the plugin directory of (group, name, version)
SixFiles(group, name, version) ==
    { PluginKey(group, name, version) \o ".zip",
      PluginKey(group, name, version) \o ".zip.md5",
      PluginKey(group, name, version) \o ".zip.sha256",
      "metadata.json", "metadata.json.md5", "metadata.json.sha256" }

\* the last call was an install_plugin or an install command that succeeded
InstallSucceeded == last \in {"install_plugin", "install"} /\ result = "ok"

C19_EmptyRepositoryRebuilds ==
    [][(last' = "refresh" /\ calls' # calls /\ MetaPaths(disk) = {})
          => /\ result' = "ok"
             /\ Root \in disk'.dirs
             /\ IsFile(disk', PluginsJson)
             /\ JsonDoc(disk'.files[PluginsJson]) = << << "groups", <<>> >> >>
             /\ IsFile(disk', << "plugins.json.md5" >>)
             /\ IsFile(disk', << "plugins.json.sha256" >>)]_vars

\* the first command of a run is refresh-repo: repo_dir exists afterwards and
\* holds nothing but the index of no groups and its sidecars
C19_Witness ==
    /\ last = "refresh" /\ calls = 1 /\ result = "ok"
    /\ disk.dirs = {Root}
    /\ DOMAIN disk.files = {PluginsJson, << "plugins.json.md5" >>, << "plugins.json.sha256" >>}
    /\ Index = << << "groups", <<>> >> >>

\* the files of the index at repo_dir
IndexFiles == {PluginsJson, << "plugins.json.md5" >>, << "plugins.json.sha256" >>}

\* a group or a name that is one directory name: not empty and not `..'
\* (no group or name of the archives holds a path separator)
SafeToken(token) == token # "" /\ token # ".."

\* the records refresh_repository took into the index document db
Ingested(d, db) == {dir \in Recorded(d) : Loadable(d, dir) /\ IndexLists(db, Identity(RecordIn(d, dir)))}

\* C20: every file install_plugin wrote lies under repo_dir exactly three
\* levels down, at <group>/<name>/<version>/, the group and the name of its
\* path being non-empty tokens other than `..'; nothing is written outside
\* repo_dir, and no record whose group or name is empty or `..' is ingested
\* into plugins.json.
C20_FilesThreeLevelsBelowRoot ==
    /\ \A path \in (DOMAIN disk.files) \ IndexFiles :
          /\ InsideRepo(path)
          /\ Len(path) = 4
          /\ SafeToken(path[1]) /\ SafeToken(path[2])
    /\ IsFile(disk, PluginsJson) =>
          \A dir \in Ingested(disk, Index) :
              SafeToken(RecordIn(disk, dir).group) /\ SafeToken(RecordIn(disk, dir).name)

\* the run of test_install_plugin: two install commands on a repository
\* that did not exist put 0.0.1 and 0.1.0 of testenv.fake_plugin1 there
TwoVersionsInstalled ==
    /\ last = "install" /\ result = "ok" /\ calls = 2
    /\ Recorded(disk) = { PluginDir("testenv", "fake_plugin1", "0.0.1"),
                          PluginDir("testenv", "fake_plugin1", "0.1.0") }

\* C21: after the install command put two versions of testenv.fake_plugin1
\* into a fresh repository, plugins.json has a top-level key `types' and
\* its value is the list ["testenv"].
C21_TypesKeyListsCategories ==
    TwoVersionsInstalled =>
        /\ DictHas(Index, "types")
        /\ DictGet(Index, "types") = << "testenv" >>

\* the characters spell MAJOR.MINOR.PATCH[-PRERELEASE][+BUILD] from their
\* first to their last
IsSemVer(s) == SemverBody(s).matched

\* a call of parse_version returned or raised
Parsed == call.fn = "parse_version" /\ call.done

\* C22: parse_version raises on a string exactly when the string is not of
\* the form MAJOR.MINOR.PATCH[-PRERELEASE][+BUILD], and for a string it
\* accepts major, minor and patch are non-negative integers.
C22_ParseAcceptsExactlySemVer ==
    Parsed =>
        /\ call.ret.raised <=> ~IsSemVer(Chars[call.args[1]])
        /\ ~call.ret.raised =>
              /\ call.ret.value.major \in Nat
              /\ call.ret.value.minor \in Nat
              /\ call.ret.value.patch \in Nat

\* every plugin directory on disk holds its record: no install_plugin that
\* created a directory stopped before the end
OnlyCompletedInstalls == \A dir \in disk.dirs : Len(dir) = 3 => dir \in Recorded(disk)

\* C23: on a repository that holds only what install_plugin calls that
\* completed successfully wrote, refresh_repository completes successfully,
\* whatever the version strings and however many versions were installed.
C23_AcceptedPackagesRebuild ==
    (last = "refresh" /\ OnlyCompletedInstalls) => result = "ok"

\* the index files on disk d and what they hold
IndexContent(d) == [path \in IndexFiles \cap DOMAIN d.files |-> d.files[path]]

\* the ways the loops of refresh_repository fail: a metadata.json that is no
\* JSON document, a record without a key, versions that cannot be compared
RefreshFailures == {"JSONDecodeError", "KeyError", "TypeError", "ValueError"}

\* C24: a refresh_repository that fails while it scans, parses or sorts the
\* records leaves plugins.json, plugins.json.md5 and plugins.json.sha256 as
\* they were: the three files are written only after both loops ended.
C24_FailedRebuildKeepsIndex ==
    [][(last' = "refresh" /\ calls' # calls /\ result' \in RefreshFailures)
          => IndexContent(disk') = IndexContent(disk)]_vars

\* a rebuild failed on versions that cannot be compared, and the index of
\* the rebuild before it is still on disk with its sidecars
C24_Witness ==
    /\ last = "refresh" /\ result = "ValueError"
    /\ DOMAIN IndexContent(disk) = IndexFiles
    /\ DictGet(Index, "groups") # <<>>
    /\ disk.files[<< "plugins.json.md5" >>] = << TextBlock(file_sums(disk.files[PluginsJson]).md5) >>

\* the names of the archive and its two sidecars in the version directory
\* of the metadata.json at the path fn
ArchiveNames(fn) ==
    { PluginKey(fn[1], fn[2], fn[3]) \o ".zip",
      PluginKey(fn[1], fn[2], fn[3]) \o ".zip.md5",
      PluginKey(fn[1], fn[2], fn[3]) \o ".zip.sha256" }

\* C25: while one install_plugin and one refresh_repository run at the same
\* time, every record the rebuild read and took into its index had, at the
\* moment it was read, the archive and both archive sidecars beside it in
\* its version directory.
C25_RecordReadAfterArchive ==
    \A i \in 1..Len(race.refresh.read) :
        ArchiveNames(race.refresh.read[i][1]) \subseteq race.refresh.read[i][2]

\* the rebuild read the record of 0.1.0 while the install_plugin that wrote
\* it had not written the sidecars of metadata.json yet, and the index the
\* rebuild wrote lists 0.1.0
C25_Witness ==
    /\ Len(race.installs) = 1
    /\ race.refresh.pc = "returned"
    /\ IndexLists(Index, << "testenv", "fake_plugin1", "0.1.0" >>)
    /\ \E i \in 1..Len(race.refresh.read) :
          /\ race.refresh.read[i][1] = MetadataFile("testenv", "fake_plugin1", "0.1.0", "")
          /\ "metadata.json.md5" \notin race.refresh.read[i][2]

\* call p is between its first write below plugin_dir and its last
Writing(p) == race.installs[p].pc \in {InstallLines[i] : i \in 2..Len(InstallLines)}

\* the files of testenv.fake_plugin1 0.0.1 as two calls left them
StoredArchive == disk.files[KeyFile("testenv", "fake_plugin1", "0.0.1", ".zip")]

StoredMd5 == disk.files[KeyFile("testenv", "fake_plugin1", "0.0.1", ".zip.md5")]

StoredSha256 == disk.files[KeyFile("testenv", "fake_plugin1", "0.0.1", ".zip.sha256")]

StoredHashes == RecordIn(disk, PluginDir("testenv", "fake_plugin1", "0.0.1")).hashes

\* a sidecar of the stored archive, or the hashes of its record, is not the
\* digest of the stored archive
Torn ==
    \/ StoredMd5 # << TextBlock(RefSums(StoredArchive).md5) >>
    \/ StoredSha256 # << TextBlock(RefSums(StoredArchive).sha256) >>
    \/ StoredHashes # RefSums(StoredArchive)

\* C26: install_plugin takes no lock around its writes: while one call is
\* between its first and its last write below plugin_dir, another call
\* that has not ended can always take its next step, on the same plugin
\* directory too.  (C26_Witness is the outcome the claim describes.)
C26_NoLockAroundWrites ==
    \A p, q \in DOMAIN race.installs :
        (p # q /\ Writing(p) /\ ~Ended(race.installs[q])) => ENABLED InstallRaceStep(q)

\* two calls for testenv.fake_plugin1 0.0.1 with different bytes both
\* returned, and the stored archive does not match its sidecars or the
\* hashes of metadata.json
C26_Witness ==
    /\ Len(race.installs) = 2
    /\ \A p \in 1..2 : race.installs[p].pc = "returned"
    /\ race.installs[1].zip.ini = race.installs[2].zip.ini
    /\ race.installs[1].zip.content # race.installs[2].zip.content
    /\ Torn

====
